---- MODULE Spec2Model ----
(***************************************************************************)
(* ShareGPT Cloudflare Worker (src/worker.js): the POST pipeline           *)
(* (rate limiter, content normaliser, ID allocator, parse cascade, store   *)
(* put) as a state machine over a key-value store, with the string         *)
(* functions computed on sequences of code units.                          *)
(*                                                                         *)
(* A text is a sequence of code units.  A code unit is written as a one    *)
(* character string; code units that TLA+ strings cannot spell are named   *)
(* ("U+200B").  BigRun is one element that stands for a run of            *)
(* MaxContentLength - 6 letters z, so that a body at the size ceiling can  *)
(* be written down.                                                        *)
(***************************************************************************)
EXTENDS Integers, Sequences, FiniteSets

(***************************************************************************)
(* Code units and character classes of the JavaScript regular expressions. *)
(***************************************************************************)
LowerCase ==
    <<"a","b","c","d","e","f","g","h","i","j","k","l","m",
      "n","o","p","q","r","s","t","u","v","w","x","y","z">>

UpperCase ==
    <<"A","B","C","D","E","F","G","H","I","J","K","L","M",
      "N","O","P","Q","R","S","T","U","V","W","X","Y","Z">>

Digit == {"0","1","2","3","4","5","6","7","8","9"}

BigRun == "z*"

\* line 101: 1024 * 1024
MaxContentLength == 1024 * 1024

SeqRange(q) == {q[i] : i \in 1..Len(q)}

\* \s : white space and line terminators of ECMAScript
WhiteSpace ==
    {" ", "\t", "\n", "\r", "\f", "U+000B", "U+00A0", "U+FEFF", "U+2028", "U+2029"}

LineTerminator == {"\n", "\r", "U+2028", "U+2029"}

IndexIn(q, c) == IF \E i \in 1..Len(q) : q[i] = c
                 THEN CHOOSE i \in 1..Len(q) : q[i] = c
                 ELSE 0

\* String.prototype.toLowerCase on one code unit
LowerOf(c) == IF IndexIn(UpperCase, c) > 0 THEN LowerCase[IndexIn(UpperCase, c)] ELSE c

toLowerCase(s) == [i \in 1..Len(s) |-> LowerOf(s[i])]

\* the length property: the number of code units (BigRun counts for its letters)
RECURSIVE Length(_)
Length(s) ==
    IF s = <<>> THEN 0
    ELSE (IF Head(s) = BigRun THEN MaxContentLength - 6 ELSE 1) + Length(Tail(s))

Slice(s, from, to) == IF to < from THEN <<>> ELSE SubSeq(s, from, to)

\* String.prototype.includes
StartsAt(s, pat, i) ==
    /\ i + Len(pat) - 1 <= Len(s)
    /\ \A k \in 1..Len(pat) : s[i + k - 1] = pat[k]

includes(s, pat) == \E i \in 1..(Len(s) + 1) : StartsAt(s, pat, i)

\* String.prototype.trim
RECURSIVE TrimLeft(_)
TrimLeft(s) == IF s # <<>> /\ Head(s) \in WhiteSpace THEN TrimLeft(Tail(s)) ELSE s

RECURSIVE TrimRight(_)
TrimRight(s) ==
    IF s # <<>> /\ s[Len(s)] \in WhiteSpace THEN TrimRight(SubSeq(s, 1, Len(s) - 1)) ELSE s

trim(s) == TrimRight(TrimLeft(s))

(***************************************************************************)
(* Regular expressions.  A pattern is a sequence of nodes:                 *)
(*   set   one code unit of cs (neg: one code unit not of cs)              *)
(*   rep   min..max code units of the class, greedy or lazy (max -1: no    *)
(*         upper limit); every quantifier of the source is over a class    *)
(*   alt   the first alternative (in order) with which the rest matches    *)
(*   open / close   the bounds of capture group g                          *)
(*   look  positive lookahead                                              *)
(*   bol / eol   ^ and $ under the m flag;  bos / eos   without it         *)
(* Match is the backtracking matcher of ECMAScript: alternatives and       *)
(* repetition counts are tried in priority order and the first complete    *)
(* match is taken.                                                         *)
(***************************************************************************)
One(S) == [t |-> "set", neg |-> FALSE, cs |-> S]

Rep(S, neg, min, max, lazy) ==
    [t |-> "rep", neg |-> neg, cs |-> S, min |-> min, max |-> max, lazy |-> lazy]

Star(S) == Rep(S, FALSE, 0, -1, FALSE)

Plus(S) == Rep(S, FALSE, 1, -1, FALSE)

NotStar(S) == Rep(S, TRUE, 0, -1, FALSE)

\* [\s\S]*?
AnyLazy == Rep({}, TRUE, 0, -1, TRUE)

\* .* and .*?  (the dot excludes line terminators)
DotLazy == Rep(LineTerminator, TRUE, 0, -1, TRUE)

Alt(alts) == [t |-> "alt", alts |-> alts]

Open(g) == [t |-> "open", g |-> g]

Close(g) == [t |-> "close", g |-> g]

Bol == [t |-> "bol"]

Eol == [t |-> "eol"]

\* a literal, and a literal under the i flag
Lit(w) == <<[t |-> "str", w |-> w, i |-> FALSE]>>

LitI(w) == <<[t |-> "str", w |-> w, i |-> TRUE]>>

Least(K) == CHOOSE k \in K : \A j \in K : k <= j

NoCaps == <<<<0, 0>>, <<0, 0>>>>

NoMatch == [ok |-> FALSE, end |-> 0, caps |-> NoCaps]

InClass(c, h) == IF h.neg THEN c \notin h.cs ELSE c \in h.cs

RECURSIVE RunLen(_, _, _, _)
RunLen(s, i, h, n) ==
    IF i + n <= Len(s) /\ (h.max = -1 \/ n < h.max) /\ InClass(s[i + n], h)
    THEN RunLen(s, i, h, n + 1)
    ELSE n

RECURSIVE Match(_, _, _, _)
RECURSIVE TryAlt(_, _, _, _, _, _)

\* the counts of a repetition after which the rest of the pattern matches: a greedy
\* repetition settles on the greatest, a lazy one on the least
TryRep(s, rest, i, caps, h, run) ==
    LET K == {k \in h.min..run : Match(s, rest, i + k, caps).ok}
    IN  IF K = {} THEN NoMatch
        ELSE Match(s, rest,
                   i + (IF h.lazy THEN Least(K) ELSE CHOOSE k \in K : \A j \in K : k >= j),
                   caps)

TryAlt(s, alts, n, rest, i, caps) ==
    IF n > Len(alts) THEN NoMatch
    ELSE LET r == Match(s, alts[n] \o rest, i, caps)
         IN  IF r.ok THEN r ELSE TryAlt(s, alts, n + 1, rest, i, caps)

Match(s, re, i, caps) ==
    IF re = <<>> THEN [ok |-> TRUE, end |-> i, caps |-> caps]
    ELSE LET h == Head(re)
             rest == Tail(re)
         IN  CASE h.t = "set" ->
                    IF i <= Len(s) /\ InClass(s[i], h)
                    THEN Match(s, rest, i + 1, caps) ELSE NoMatch
               [] h.t = "rep" ->
                    LET run == RunLen(s, i, h, 0)
                    IN  IF run < h.min THEN NoMatch
                        ELSE TryRep(s, rest, i, caps, h, run)
               [] h.t = "str" ->
                    IF /\ i + Len(h.w) - 1 <= Len(s)
                       /\ \A n \in 1..Len(h.w) :
                             IF h.i THEN LowerOf(s[i + n - 1]) = LowerOf(h.w[n])
                             ELSE s[i + n - 1] = h.w[n]
                    THEN Match(s, rest, i + Len(h.w), caps)
                    ELSE NoMatch
               [] h.t = "alt" -> TryAlt(s, h.alts, 1, rest, i, caps)
               [] h.t = "open" ->
                    Match(s, rest, i, [caps EXCEPT ![h.g] = <<i, 0>>])
               [] h.t = "close" ->
                    Match(s, rest, i, [caps EXCEPT ![h.g] = <<caps[h.g][1], i>>])
               [] h.t = "look" ->
                    IF Match(s, h.re, i, caps).ok THEN Match(s, rest, i, caps) ELSE NoMatch
               [] h.t = "bol" ->
                    IF i = 1 \/ s[i - 1] \in LineTerminator
                    THEN Match(s, rest, i, caps) ELSE NoMatch
               [] h.t = "eol" ->
                    IF i = Len(s) + 1 \/ s[i] \in LineTerminator
                    THEN Match(s, rest, i, caps) ELSE NoMatch
               [] h.t = "bos" -> IF i = 1 THEN Match(s, rest, i, caps) ELSE NoMatch
               [] h.t = "eos" ->
                    IF i = Len(s) + 1 THEN Match(s, rest, i, caps) ELSE NoMatch

\* the positions from i on at which the pattern matches
MatchStarts(s, re, i) == {j \in i..(Len(s) + 1) : Match(s, re, j, NoCaps).ok}

\* the matches of a g-flagged pattern from position i on, left to right; after
\* an empty match the scan advances by one code unit
RECURSIVE MatchAllFrom(_, _, _)
MatchAllFrom(s, re, i) ==
    LET J == MatchStarts(s, re, i)
    IN  IF J = {} THEN <<>>
        ELSE LET j == Least(J)
                 r == Match(s, re, j, NoCaps)
             IN  <<[start |-> j, end |-> r.end, caps |-> r.caps]>>
                 \o MatchAllFrom(s, re, IF r.end = j THEN j + 1 ELSE r.end)

matchAll(s, re) == MatchAllFrom(s, re, 1)

\* String.prototype.replace with a g-flagged pattern and a fixed replacement
RECURSIVE Splice(_, _, _, _, _)
Splice(s, ms, n, i, repl) ==
    IF n > Len(ms) THEN Slice(s, i, Len(s))
    ELSE Slice(s, i, ms[n].start - 1) \o repl \o Splice(s, ms, n + 1, ms[n].end, repl)

ReplaceAll(s, re, repl) == Splice(s, matchAll(s, re), 1, 1, repl)

\* String.prototype.replace with a pattern without the g flag: the first match
FirstMatch(s, re, i) ==
    LET J == MatchStarts(s, re, i)
    IN  IF J = {} THEN <<>>
        ELSE LET r == Match(s, re, Least(J), NoCaps)
             IN  <<[start |-> Least(J), end |-> r.end, caps |-> r.caps]>>

ReplaceFirst(s, re, repl) == Splice(s, FirstMatch(s, re, 1), 1, 1, repl)

(***************************************************************************)
(* JavaScript values.  A string carries its text; the other values carry   *)
(* what typeof and truthiness need.                                        *)
(***************************************************************************)
Str(t) == [k |-> "string", v |-> t]

JsUndefined == [k |-> "undefined"]

JsNull == [k |-> "null"]

JsNumber(t) == [k |-> "number", v |-> t]

JsBool(b) == [k |-> "boolean", v |-> b]

JsArray(items) == [k |-> "array", v |-> items]

\* an object: its own properties in insertion order, <<key, value>>
JsObject(props) == [k |-> "object", v |-> props]

typeof(x) == IF x.k \in {"array", "null"} THEN "object" ELSE x.k

\* a number literal is zero when its mantissa has no digit 1..9
RECURSIVE MantissaIsZero(_)
MantissaIsZero(t) ==
    \/ t = <<>>
    \/ Head(t) \in {"e", "E"}
    \/ Head(t) \in {"0", "-", "."} /\ MantissaIsZero(Tail(t))

Truthy(x) ==
    CASE x.k = "string" -> x.v # <<>>
      [] x.k = "number" -> ~MantissaIsZero(x.v)
      [] x.k = "boolean" -> x.v
      [] x.k \in {"undefined", "null"} -> FALSE
      [] OTHER -> TRUE

(***************************************************************************)
(* Chains of String.prototype.replace calls.                               *)
(***************************************************************************)
G(re, by) == [re |-> re, by |-> by, g |-> TRUE]

F1(re, by) == [re |-> re, by |-> by, g |-> FALSE]

RECURSIVE ApplySteps(_, _)
ApplySteps(s, steps) ==
    IF steps = <<>> THEN s
    ELSE LET next == IF Head(steps).g
                     THEN ReplaceAll(s, Head(steps).re, Head(steps).by)
                     ELSE ReplaceFirst(s, Head(steps).re, Head(steps).by)
         IN  IF Len(next) >= 0 THEN ApplySteps(next, Tail(steps)) ELSE <<>>

\* /<tag[^>]*>[\s\S]*?<\/tag>/gi
BlockRe(tag) ==
    LitI(<<"<">> \o tag) \o <<NotStar({">"}), One({">"}), AnyLazy>>
    \o LitI(<<"<", "/">> \o tag \o <<">">>)

DangerousBlocks ==
    <<G(BlockRe(<<"s","c","r","i","p","t">>), <<>>),
      G(BlockRe(<<"s","t","y","l","e">>), <<>>),
      G(BlockRe(<<"i","f","r","a","m","e">>), <<>>),
      G(BlockRe(<<"n","o","s","c","r","i","p","t">>), <<>>)>>

(***************************************************************************)
(* sanitizeHtmlContent: removes dangerous elements, keeps the other tags.  *)
(***************************************************************************)
\* /\s+on\w+="[^"]*"/gi and /\s+on\w+='[^']*'/gi
OnAttrRe(q) ==
    <<Plus(WhiteSpace)>> \o LitI(<<"o", "n">>)
    \* \w : [A-Za-z0-9_]; BigRun is a run of the word character z
    \o <<Plus(SeqRange(LowerCase) \cup SeqRange(UpperCase) \cup Digit \cup {"_", BigRun})>>
    \o Lit(<<"=", q>>) \o <<NotStar({q}), One({q})>>

sanitizeHtmlContent(html) ==
    IF ~Truthy(html) \/ typeof(html) # "string" THEN <<>>
    ELSE ApplySteps(html.v,
        DangerousBlocks
        \o <<G(OnAttrRe("\""), <<>>),
             G(OnAttrRe("'"), <<>>),
             G(LitI(<<"j","a","v","a","s","c","r","i","p","t",":">>), <<>>)>>)

(***************************************************************************)
(* cleanHtmlContent: strips markup into flowed text.                       *)
(***************************************************************************)
cleanHtmlContent(content) ==
    IF ~Truthy(content) \/ typeof(content) # "string" THEN <<>>
    ELSE trim(ApplySteps(content.v,
        \* multipart form boundaries
        <<G(<<Bol, Rep({"-"}, FALSE, 10, -1, FALSE), Rep(Digit, FALSE, 10, -1, FALSE),
              Rep({"-"}, FALSE, 0, 2, FALSE), Eol>>, <<>>),
          G(<<Bol>> \o Lit(<<"C","o","n","t","e","n","t","-">>) \o <<DotLazy, Eol>>, <<>>),
          G(<<Bol>> \o Lit(<<"b","o","u","n","d","a","r","y","=">>) \o <<DotLazy, Eol>>, <<>>)>>
        \* scripts, styles, iframes, noscript
        \o DangerousBlocks
        \* HTML elements to text equivalents
        \o <<G(LitI(<<"<","b","r">>) \o <<Star(WhiteSpace), Rep({"/"}, FALSE, 0, 1, FALSE),
                                    One({">"})>>, <<"\n">>),
             G(LitI(<<"<","/","p",">">>), <<"\n", "\n">>),
             G(LitI(<<"<","/","d","i","v",">">>), <<"\n">>),
             G(LitI(<<"<","/","h">>) \o <<One({"1", "2", "3", "4", "5", "6"}), One({">"})>>,
               <<"\n", "\n">>),
             G(LitI(<<"<","l","i">>) \o <<NotStar({">"}), One({">"})>>, <<"U+2022", " ">>),
             G(LitI(<<"<","/","l","i",">">>), <<"\n">>),
        \* all remaining tags
             G(<<One({"<"}), NotStar({">"}), One({">"})>>, <<>>),
        \* HTML entities
           G(Lit(<<"&","n","b","s","p",";">>), <<" ">>),
           G(Lit(<<"&","l","t",";">>), <<"<">>),
           G(Lit(<<"&","g","t",";">>), <<">">>),
           G(Lit(<<"&","a","m","p",";">>), <<"&">>),
           G(Lit(<<"&","q","u","o","t",";">>), <<"\"">>),
           G(Lit(<<"&","#","x","2","7",";">>), <<"'">>),
           G(Lit(<<"&","#","x","2","F",";">>), <<"/">>),
           G(Lit(<<"&","#","3","9",";">>), <<"'">>),
           G(Lit(<<"&","h","e","l","l","i","p",";">>), <<".",".",".">>),
             G(Lit(<<"&","m","d","a","s","h",";">>), <<"U+2014">>),
             G(Lit(<<"&","n","d","a","s","h",";">>), <<"U+2013">>),
        \* white space and formatting
             G(Lit(<<"\r", "\n">>), <<"\n">>),
             G(Lit(<<"\r">>), <<"\n">>),
             G(<<Rep({"\n"}, FALSE, 3, -1, FALSE)>>, <<"\n", "\n">>),
             G(<<Plus({" ", "\t"})>>, <<" ">>),
             G(<<Bol, Plus({" "})>>, <<>>),
             G(<<Plus({" "}), Eol>>, <<>>),
             F1(<<[t |-> "bos"], Plus({"\n"})>>, <<>>),
             F1(<<Plus({"\n"}), [t |-> "eos"]>>, <<>>),
             G(<<One({"U+200B", "U+200C", "U+200D", "U+FEFF"})>>, <<>>),
             G(<<Plus(WhiteSpace \ {"\n"})>>, <<" ">>)>>))

(***************************************************************************)
(* preprocessContent: removes multipart form data artifacts.               *)
(***************************************************************************)
HeaderLineRe(name) == <<Bol>> \o Lit(name) \o <<Rep(LineTerminator, TRUE, 0, -1, FALSE), Eol>>

preprocessContent(content) ==
    IF ~Truthy(content) \/ typeof(content) # "string" THEN <<>>
    ELSE trim(ApplySteps(content.v,
        <<G(<<Bol, Rep({"-"}, FALSE, 20, -1, FALSE), Rep(Digit, FALSE, 15, -1, FALSE),
              Rep({"-"}, FALSE, 0, 2, FALSE), Eol>>, <<>>),
          G(HeaderLineRe(<<"C","o","n","t","e","n","t","-","D","i","s","p","o","s","i","t","i","o","n",":">>), <<>>),
          G(HeaderLineRe(<<"C","o","n","t","e","n","t","-","T","y","p","e",":">>), <<>>),
          G(HeaderLineRe(<<"C","o","n","t","e","n","t","-","L","e","n","g","t","h",":">>), <<>>),
          G(HeaderLineRe(<<"b","o","u","n","d","a","r","y","=">>), <<>>),
          G(<<Bol>> \o Lit(<<"n","a","m","e","=","\"">>) \o <<DotLazy, One({"\""}), Eol>>, <<>>),
          G(<<Bol, Star(WhiteSpace), Eol>>, <<>>),
          G(<<Rep({"\n"}, FALSE, 3, -1, FALSE)>>, <<"\n", "\n">>)>>))

\* match[g]: the text of capture group g, undefined when the group did not take part
Group(s, m, g) ==
    IF m.caps[g][1] = 0 THEN JsUndefined
    ELSE Str(Slice(s, m.caps[g][1], m.caps[g][2] - 1))

(***************************************************************************)
(* JSON.parse on a text.  Strings take the simple escapes (no \u escape);  *)
(* numbers keep their literal.  The result is [ok, v, i]: ok FALSE is the  *)
(* SyntaxError, i the position after the value.                            *)
(***************************************************************************)
Unescape(c) ==
    CASE c = "b" -> "U+0008"
      [] c = "f" -> "\f"
      [] c = "n" -> "\n"
      [] c = "r" -> "\r"
      [] c = "t" -> "\t"
      [] OTHER -> c

\* -?(0|[1-9][0-9]*)(\.[0-9]+)?([eE][+-]?[0-9]+)?
JsonNumberRe ==
    <<Rep({"-"}, FALSE, 0, 1, FALSE),
      Alt(<< <<One({"0"})>>, <<One(Digit \ {"0"}), Star(Digit)>> >>),
      Alt(<< <<One({"."}), Plus(Digit)>>, <<>> >>),
      Alt(<< <<One({"e", "E"}), Rep({"+", "-"}, FALSE, 0, 1, FALSE), Plus(Digit)>>, <<>> >>)>>

JFail == [ok |-> FALSE, v |-> JsNull, i |-> 0]

JOk(v, i) == [ok |-> TRUE, v |-> v, i |-> i]

RECURSIVE SkipWs(_, _)
SkipWs(s, i) == IF i <= Len(s) /\ s[i] \in {" ", "\t", "\n", "\r"} THEN SkipWs(s, i + 1) ELSE i

\* the rest of a string, from the code unit after its opening quote (the length
\* test only makes the evaluation of acc eager)
RECURSIVE JsonString(_, _, _)
JsonString(s, i, acc) ==
    IF i > Len(s) \/ Len(acc) < 0 THEN JFail
    ELSE IF s[i] = "\"" THEN JOk(Str(acc), i + 1)
    ELSE IF s[i] = "\\"
         THEN IF i + 1 <= Len(s) /\ s[i + 1] \in {"\"", "\\", "/", "b", "f", "n", "r", "t"}
              THEN JsonString(s, i + 2, Append(acc, Unescape(s[i + 1])))
              ELSE JFail
    \* the code units below U+0020, which a JSON string may not hold raw
    ELSE IF s[i] \in {"\t", "\n", "\r", "\f", "U+000B", "U+0008"} THEN JFail
    ELSE JsonString(s, i + 1, Append(acc, s[i]))

RECURSIVE JsonValue(_, _)
RECURSIVE JsonElements(_, _, _)
RECURSIVE JsonMembers(_, _, _)

\* the elements of an array after "[" or ",": value ws ("," | "]")
JsonElements(s, i, acc) ==
    LET e == JsonValue(s, SkipWs(s, i))
        j == SkipWs(s, e.i)
    IN  IF ~e.ok \/ j > Len(s) THEN JFail
        ELSE IF s[j] = "," THEN JsonElements(s, j + 1, Append(acc, e.v))
        ELSE IF s[j] = "]" THEN JOk(JsArray(Append(acc, e.v)), j + 1)
        ELSE JFail

\* the members of an object after "{" or ",": string ws ":" value ws ("," | "}")
JsonMembers(s, i, acc) ==
    LET k0 == SkipWs(s, i)
        key == IF k0 <= Len(s) /\ s[k0] = "\"" THEN JsonString(s, k0 + 1, <<>>) ELSE JFail
        c == IF key.ok THEN SkipWs(s, key.i) ELSE 0
        val == IF key.ok /\ c <= Len(s) /\ s[c] = ":"
               THEN JsonValue(s, SkipWs(s, c + 1)) ELSE JFail
        j == IF val.ok THEN SkipWs(s, val.i) ELSE 0
    IN  IF ~val.ok \/ j > Len(s) THEN JFail
        ELSE IF s[j] = "," THEN JsonMembers(s, j + 1, Append(acc, <<key.v.v, val.v>>))
        ELSE IF s[j] = "}" THEN JOk(JsObject(Append(acc, <<key.v.v, val.v>>)), j + 1)
        ELSE JFail

JsonValue(s, i) ==
    IF i > Len(s) THEN JFail
    ELSE CASE s[i] = "[" ->
                LET j == SkipWs(s, i + 1)
                IN  IF j <= Len(s) /\ s[j] = "]" THEN JOk(JsArray(<<>>), j + 1)
                    ELSE JsonElements(s, i + 1, <<>>)
           [] s[i] = "{" ->
                LET j == SkipWs(s, i + 1)
                IN  IF j <= Len(s) /\ s[j] = "}" THEN JOk(JsObject(<<>>), j + 1)
                    ELSE JsonMembers(s, i + 1, <<>>)
           [] s[i] = "\"" -> JsonString(s, i + 1, <<>>)
           [] StartsAt(s, <<"t","r","u","e">>, i) -> JOk(JsBool(TRUE), i + 4)
           [] StartsAt(s, <<"f","a","l","s","e">>, i) -> JOk(JsBool(FALSE), i + 5)
           [] StartsAt(s, <<"n","u","l","l">>, i) -> JOk(JsNull, i + 4)
           [] OTHER ->
                LET m == Match(s, JsonNumberRe, i, NoCaps)
                IN  IF m.ok THEN JOk(JsNumber(Slice(s, i, m.end - 1)), m.end) ELSE JFail

\* JsToString of the values that are passed where a string is expected
JsToString(x) ==
    CASE x.k = "string" -> x.v
      [] x.k = "number" -> x.v
      [] x.k = "null" -> <<"n","u","l","l">>
      [] x.k = "boolean" -> IF x.v THEN <<"t","r","u","e">> ELSE <<"f","a","l","s","e">>
      [] OTHER -> <<"u","n","d","e","f","i","n","e","d">>

JSONparse(x) ==
    LET s == JsToString(x)
        r == JsonValue(s, SkipWs(s, 1))
    IN  IF r.ok /\ SkipWs(s, r.i) = Len(s) + 1 THEN r ELSE JFail

\* x[key] of a parsed value: the last member of that name, else undefined
RECURSIVE Lookup(_, _, _)
Lookup(props, key, n) ==
    IF n = 0 THEN JsUndefined
    ELSE IF props[n][1] = key THEN props[n][2]
    ELSE Lookup(props, key, n - 1)

GetProp(x, key) == IF x.k = "object" THEN Lookup(x.v, key, Len(x.v)) ELSE JsUndefined

(***************************************************************************)
(* Parse results.  A result is the object the code returns: the fallback   *)
(* results of the two catch blocks have an error and no messageCount.      *)
(***************************************************************************)
RoleUser == <<"u","s","e","r">>

RoleAssistant == <<"a","s","s","i","s","t","a","n","t">>

RoleUnknown == <<"u","n","k","n","o","w","n">>

Message(role, content) == [role |-> role, content |-> content]

Counted(messages, format) ==
    [messages |-> messages, format |-> format, messageCount |-> Len(messages)]

\* C5, a bug: the catch block returns no error field
C5_CaughtWithoutError(content, message) ==
    [messages |-> <<Message(RoleUnknown, cleanHtmlContent(content))>>,
     format |-> "fallback"]

Caught(content, message) ==
    [messages |-> <<Message(RoleUnknown, cleanHtmlContent(content))>>,
     format |-> "fallback",
     error |-> message]

(***************************************************************************)
(* isValidConversationJSON and parseJSONConversation.                      *)
(***************************************************************************)
FromHuman == <<"h","u","m","a","n">>

FromGpt == <<"g","p","t">>

KeyFrom == <<"f","r","o","m">>

KeyValue == <<"v","a","l","u","e">>

ValidItem(item) ==
    /\ Truthy(item)
    /\ typeof(item) = "object"
    /\ typeof(GetProp(item, KeyFrom)) = "string"
    /\ typeof(GetProp(item, KeyValue)) = "string"
    /\ GetProp(item, KeyFrom).v \in {FromHuman, FromGpt, RoleUser, RoleAssistant}

\* lines 316-328 on the outcome of JSON.parse
IsConversation(data) ==
    IF ~data.ok THEN FALSE
    ELSE IF data.v.k # "array" \/ Len(data.v.v) = 0 THEN FALSE
    ELSE \A n \in 1..Len(data.v.v) : ValidItem(data.v.v[n])

isValidConversationJSON(content) == IsConversation(JSONparse(content))

\* C8, a bug: the synonym user is missing
C8_UserSynonymMissing(item) ==
    IF GetProp(item, KeyFrom) = Str(FromHuman) THEN RoleUser ELSE RoleAssistant

JsonRole(item) ==
    IF GetProp(item, KeyFrom) \in {Str(FromHuman), Str(RoleUser)}
    THEN RoleUser ELSE RoleAssistant

\* what lines 356-361 throw on the outcome of JSON.parse: data.map is not a
\* function, item.from of null
JsonThrows(data) ==
    IF ~data.ok THEN "SyntaxError"
    ELSE IF data.v.k # "array" THEN "TypeError"
    ELSE IF \E n \in 1..Len(data.v.v) : data.v.v[n].k = "null" THEN "TypeError"
    ELSE "none"

\* lines 357-360
JsonMessages(data) ==
    [n \in 1..Len(data.v.v) |->
        Message(JsonRole(data.v.v[n]), sanitizeHtmlContent(GetProp(data.v.v[n], KeyValue)))]

ParsedConversation(content, data) ==
    IF JsonThrows(data) # "none" THEN Caught(content, JsonThrows(data))
    ELSE Counted(JsonMessages(data), "json")

parseJSONConversation(content) == ParsedConversation(content, JSONparse(content))

(***************************************************************************)
(* parseWithHTMLRewriter with ElementHandler, DocumentHandler and          *)
(* TextHandlerFactory.  HTMLRewriter itself is the platform's: a run of it *)
(* is the sequence of handler calls it makes, or a failure.  All five      *)
(* tracks are text tracks (their second entry is absent or null).          *)
(***************************************************************************)
\* the handler calls of a run
ElementEvent(track) == [e |-> "element", track |-> track]

TextEvent(text, lastInTextNode) ==
    [e |-> "text", text |-> text, lastInTextNode |-> lastInTextNode]

decodeHtmlEntities(text) ==
    ApplySteps(text,
        <<G(Lit(<<"&","a","m","p",";">>), <<"&">>),
          G(Lit(<<"&","l","t",";">>), <<"<">>),
          G(Lit(<<"&","g","t",";">>), <<">">>),
          G(Lit(<<"&","q","u","o","t",";">>), <<"\"">>),
          G(Lit(<<"&","#","x","2","7",";">>), <<"'">>),
          G(Lit(<<"&","#","x","2","F",";">>), <<"/">>)>>)

NewDocumentHandler ==
    [buffer |-> <<>>, doOnText |-> FALSE, onText |-> "none",
     result |-> [k \in {"userMessages", "assistantMessages", "messageTexts", "userTexts",
           "assistantTexts"} |-> JsUndefined]]

\* ElementHandler.element of a text track: dh.onText = cb
OnElement(dh, track) == [dh EXCEPT !.doOnText = TRUE, !.onText = track]

\* DocumentHandler.text
OnTextChunk(dh, ev) ==
    IF ~dh.doOnText THEN dh
    ELSE IF ~ev.lastInTextNode THEN [dh EXCEPT !.buffer = dh.buffer \o ev.text]
    ELSE [dh EXCEPT !.buffer = <<>>,
                    !.doOnText = FALSE,
                    !.result = IF dh.onText = "none" THEN dh.result
                               ELSE [dh.result EXCEPT ![dh.onText] =
                                        Str(decodeHtmlEntities(dh.buffer \o ev.text))]]

RECURSIVE RunHandlers(_, _)
RunHandlers(dh, events) ==
    IF events = <<>> THEN dh
    ELSE RunHandlers(IF Head(events).e = "element"
                     THEN OnElement(dh, Head(events).track)
                     ELSE OnTextChunk(dh, Head(events)),
                     Tail(events))

\* the promise: resolved with result at the document's end, rejected on an error
parseWithHTMLRewriter(run) ==
    IF run.throws THEN [ok |-> FALSE, result |-> NewDocumentHandler.result]
    ELSE [ok |-> TRUE, result |-> RunHandlers(NewDocumentHandler, run.events).result]

(***************************************************************************)
(* parseHtmlContent.                                                       *)
(***************************************************************************)
RoleLabels ==
    Alt(<<LitI(<<"U","s","e","r">>), LitI(<<"H","u","m","a","n">>),
          LitI(<<"A","s","s","i","s","t","a","n","t">>), LitI(<<"A","I">>)>>)

patterns ==
    \* /<div[^>]*data-message-author-role="(user|assistant)"[^>]*>([\s\S]*?)<\/div>/gi
    <<LitI(<<"<","d","i","v">>) \o <<NotStar({">"})>>
      \o LitI(<<"d","a","t","a","-","m","e","s","s","a","g","e","-","a","u","t","h","o","r","-","r","o","l","e","=","\"">>)
      \o <<Open(1), Alt(<<LitI(RoleUser), LitI(RoleAssistant)>>), Close(1),
           One({"\""}), NotStar({">"}), One({">"}), Open(2), AnyLazy, Close(2)>>
      \o LitI(<<"<","/","d","i","v",">">>),
    \* /<div[^>]*class="[^"]*message[^"]*"[^>]*>([\s\S]*?)<\/div>/gi
      LitI(<<"<","d","i","v">>) \o <<NotStar({">"})>> \o LitI(<<"c","l","a","s","s","=","\"">>)
      \o <<NotStar({"\""})>> \o LitI(<<"m","e","s","s","a","g","e">>)
      \o <<NotStar({"\""}), One({"\""}), NotStar({">"}), One({">"}),
           Open(1), AnyLazy, Close(1)>>
      \o LitI(<<"<","/","d","i","v",">">>),
    \* /^(User|Human|Assistant|AI):\s*([\s\S]*?)(?=^(?:User|Human|Assistant|AI):|$)/gmi
      <<Bol, Open(1), RoleLabels, Close(1), One({":"}), Star(WhiteSpace),
        Open(2), AnyLazy, Close(2),
        [t |-> "look", re |-> <<Alt(<< <<Bol, RoleLabels, One({":"})>>, <<Eol>> >>)>>]>> >>

\* the messages pushed for the matches of one pattern (lines 452-466)
MatchMessage(html, m) ==
    LET m0 == Slice(html, m.start, m.end - 1)
        m1 == Group(html, m, 1)
        m2 == Group(html, m, 2)
    IN  IF ~Truthy(m1) THEN <<>>
        ELSE <<Message(IF Truthy(m2) THEN toLowerCase(m1.v)
                       ELSE IF includes(toLowerCase(m0), RoleUser)
                               \/ includes(toLowerCase(m0), FromHuman)
                       THEN RoleUser ELSE RoleAssistant,
                       cleanHtmlContent(IF Truthy(m2) THEN m2 ELSE m1))>>

RECURSIVE MatchMessages(_, _, _)
MatchMessages(html, ms, n) ==
    IF n > Len(ms) THEN <<>>
    ELSE MatchMessage(html, ms[n]) \o MatchMessages(html, ms, n + 1)

\* C18, a bug: a pattern whose matches gave no message leaves the next one to decide
RECURSIVE C18_NextPatternWhenEmpty(_, _)
C18_NextPatternWhenEmpty(html, n) ==
    IF n > Len(patterns) THEN <<>>
    ELSE IF Len(MatchMessages(html, matchAll(html, patterns[n]), 1)) > 0
    THEN MatchMessages(html, matchAll(html, patterns[n]), 1)
    ELSE C18_NextPatternWhenEmpty(html, n + 1)

\* for (const pattern of patterns): the first pattern that has a match decides
RECURSIVE RegexMessages(_, _)
RegexMessages(html, n) ==
    IF n > Len(patterns) THEN <<>>
    ELSE LET matches == matchAll(html, patterns[n])
         IN  IF Len(matches) > 0 THEN MatchMessages(html, matches, 1)
             ELSE RegexMessages(html, n + 1)

\* C14, a bug: the single message of lines 472-477 is left out
C14_NothingPushed(html, messages) == messages

\* lines 472-477: no pattern gave a message
OrUnknown(html, messages) ==
    IF Len(messages) = 0 THEN <<Message(RoleUnknown, cleanHtmlContent(html))>>
    ELSE messages

RegexTier(html) == Counted(OrUnknown(html, RegexMessages(html.v, 1)), "parsed")

\* the message of one track of the HTMLRewriter tier
TrackMessage(role, text) ==
    IF Truthy(text) THEN <<Message(role, cleanHtmlContent(text))>> ELSE <<>>

\* the messages of the HTMLRewriter tier (lines 405-421)
StructuredMessages(result) ==
    TrackMessage(RoleUser, result["userTexts"])
    \o TrackMessage(RoleAssistant, result["assistantTexts"])

\* C17, a bug: the structured tier decides on a text that holds no marker
C17_MarkersNotRequired(html, structured) ==
    IF Len(structured) > 0 THEN Counted(structured, "htmlrewriter")
    ELSE RegexTier(html)

\* lines 392-479: the structured tier when the markers are present and it gives
\* messages, else the regex tier
HasMarker(html) == includes(html.v, <<"d","a","t","a","-","m","e","s","s","a","g","e","-","a","u","t","h","o","r","-","r","o","l","e">>) \/ includes(html.v, <<"m","e","s","s","a","g","e","-","c","o","n","t","e","n","t">>)

Tiers(html, structured) ==
    IF HasMarker(html) /\ Len(structured) > 0 THEN Counted(structured, "htmlrewriter")
    ELSE RegexTier(html)

\* run: what HTMLRewriter does when the structured tier is attempted
parseHtmlContent(html, run) ==
    IF isValidConversationJSON(html) THEN parseJSONConversation(html)
    \* html.includes of a value that is no string: caught at line 485
    ELSE IF typeof(html) # "string" THEN Caught(html, "TypeError")
    ELSE Tiers(html, StructuredMessages(parseWithHTMLRewriter(run).result))

(***************************************************************************)
(* The key-value store env.sharegpt: key -> [value, ttl].  ttl is the      *)
(* number of seconds left before the store drops the key, 0 for a key      *)
(* written without expirationTtl.                                          *)
(***************************************************************************)
KvGet(store, key) == IF key \in DOMAIN store THEN store[key].value ELSE JsNull

KvPut(store, key, value, expirationTtl) ==
    [x \in DOMAIN store \cup {key} |->
        IF x = key THEN [value |-> value, ttl |-> expirationTtl] ELSE store[x]]

\* the store after d seconds: keys whose time is up are gone
KvAfter(store, d) ==
    [x \in {y \in DOMAIN store : store[y].ttl = 0 \/ store[y].ttl > d} |->
        IF store[x].ttl = 0 THEN store[x]
        ELSE [store[x] EXCEPT !.ttl = store[x].ttl - d]]

(***************************************************************************)
(* checkRateLimit.                                                         *)
(***************************************************************************)
limit == 10

expirationTtl == 3600

RateLimitKey(ip) == <<"r","a","t","e","_","l","i","m","i","t",":">> \o ip

RECURSIVE DigitsValue(_, _)
DigitsValue(s, acc) ==
    IF s = <<>> \/ Head(s) \notin Digit THEN acc
    ELSE DigitsValue(Tail(s), acc * 10 + 
                     IndexIn(<<"0","1","2","3","4","5","6","7","8","9">>, Head(s)) - 1)

\* parseInt: the leading integer of the text, NaN when there is none
NaN == [nan |-> TRUE, n |-> 0]

parseInt(x) ==
    LET s == TrimLeft(JsToString(x))
        neg == s # <<>> /\ Head(s) = "-"
        body == IF s # <<>> /\ Head(s) \in {"-", "+"} THEN Tail(s) ELSE s
    IN  IF body = <<>> \/ Head(body) \notin Digit THEN NaN
        ELSE [nan |-> FALSE,
              n |-> IF neg THEN 0 - DigitsValue(body, 0) ELSE DigitsValue(body, 0)]

\* String(n) of an integer n >= 0
RECURSIVE String(_)
String(n) ==
    IF n < 10 THEN <<<<"0","1","2","3","4","5","6","7","8","9">>[n + 1]>>
    ELSE String(n \div 10) \o String(n % 10)

\* C19, a bug: the request is rejected only above the limit
C19_StrictlyAbove(current) ==
    Truthy(current) /\ ~parseInt(current).nan /\ parseInt(current).n > limit

\* current && parseInt(current) >= limit
RateLimitExceeded(current) ==
    Truthy(current) /\ ~parseInt(current).nan /\ parseInt(current).n >= limit

\* C15, a bug: a request counts for two
C15_CountsTwice(current) ==
    (IF parseInt(current).nan THEN 0 ELSE parseInt(current).n) + 2

\* (parseInt(current) || 0) + 1
NewCount(current) ==
    (IF parseInt(current).nan THEN 0 ELSE parseInt(current).n) + 1

(***************************************************************************)
(* generateUniqueId.  A value of Math.random() is n / RandomScale with     *)
(* 0 <= n < RandomScale.                                                   *)
(***************************************************************************)
chars ==
    <<
      "a","b","c","d","e","f","g","h","i","j","k","m","n","p",
      "q","r","s","t","u","v","w","x","y","z","A","B","C","D",
      "E","F","G","H","J","K","M","N","P","Q","R","S","T","U",
      "V","W","X","Y","Z","2","3","4","5","6","7","8","9">>

maxAttempts == 10

IdLength == 8

RandomScale == 1000

\* chars[Math.floor(Math.random() * chars.length)]
RandomChar(n) == chars[((n * Len(chars)) \div RandomScale) + 1]

\* the symbols that Math.floor(Math.random() * chars.length) can select
Drawable == {RandomChar(n) : n \in 0..(RandomScale - 1)}

\* C4, a bug: the loop stops one character early
C4_SevenCharacters(draws) == [i \in 1..(IdLength - 1) |-> RandomChar(draws[i])]

\* the candidate built from eight values of Math.random()
Candidate(draws) == [i \in 1..IdLength |-> RandomChar(draws[i])]

\* if (!existing) return id
IdIsFree(store, id) == ~Truthy(KvGet(store, id))

(***************************************************************************)
(* The requests the clients send: the Content-Type header and the body.    *)
(***************************************************************************)
TextPlain == <<"t","e","x","t","/","p","l","a","i","n">>

ApplicationJson == <<"a","p","p","l","i","c","a","t","i","o","n","/","j","s","o","n">>

Post(contentType, body) == [contentType |-> contentType, body |-> body]

Submissions ==
    <<  \* 1: an empty body
        Post(TextPlain, <<>>),
        \* 2: nothing but a multipart header line
        Post(<<>>, <<"C","o","n","t","e","n","t","-","T","y","p","e",":"," ","t","e",
             "x","t","/","h","t","m","l","\n","\n">>),
        \* 3: a body of one code unit more than 1 MiB
        Post(TextPlain, <<BigRun, "1","2","3","4","5","6","7">>),
        \* 4: a body of exactly 1 MiB
        Post(TextPlain, <<BigRun, "1","2","3","4","5","6">>),
        \* 5: a role-labelled line
        Post(TextPlain, <<"A","I",":"," ","a">>),
        \* 6: {"html":"[{\"from\":\"gpt\",\"value\":\"a\"}]"}
        Post(<<"a","p","p","l","i","c","a","t","i","o","n","/","j","s","o","n", ";"," ","c","h","a","r","s","e","t","=","u","t","f","-","8">>,
             <<"{","\"","h","t","m","l","\"",":","\"","[","{","\\","\"","f","r","o",
             "m","\\","\"",":","\\","\"","g","p","t","\\","\"",",","\\","\"","v",
             "a","l","u","e","\\","\"",":","\\","\"","a","\\","\"","}","]","\"",
             "}">>),
        \* 7: {"content":"message-content"}
        Post(ApplicationJson,
             <<"{","\"","c","o","n","t","e","n","t","\"",":","\"","m","e","s","s",
             "a","g","e","-","c","o","n","t","e","n","t","\"","}">>),
        \* 8: a JSON body that does not parse
        Post(ApplicationJson, <<"{","\"","h","t","m","l","\"",":">>),
        \* 9: {"html":5}
        Post(ApplicationJson, <<"{","\"","h","t","m","l","\"",":","5","}">>),
        \* 10: null
        Post(ApplicationJson, <<"n","u","l","l">>) >>

\* the CF-Connecting-IP header of the client: absent or an address
Headers == {JsNull, Str(<<"2","0","3",".","0",".","1","1","3",".","7">>)}

\* eight values of Math.random(), as numerators over RandomScale
RandomDraws ==
    {<<0, 0, 0, 0, 0, 0, 0, 0>>,
     <<999, 999, 999, 999, 999, 999, 999, 999>>}

\* runs of HTMLRewriter over the submitted markup
HrThrows == [throws |-> TRUE, events |-> <<>>]

HrRun(events) == [throws |-> FALSE, events |-> events]

HrRuns ==
    {HrThrows,
     HrRun(<<>>),
     HrRun(<<ElementEvent("userMessages"), ElementEvent("messageTexts"),
             ElementEvent("userTexts"), TextEvent(<<"h">>, FALSE),
             TextEvent(<<"i", "&", "a", "m", "p", ";">>, TRUE)>>)}

(***************************************************************************)
(* The arguments of the calls of parseHtmlContent that are examined on     *)
(* their own: role-labelled lines, JSON texts, markup, values that are no  *)
(* strings.                                                                *)
(***************************************************************************)
LabelledLines ==
    {l \o <<":">> \o c :
        l \in {<<"U","s","e","r">>, <<"H","u","m","a","n">>,
               <<"A","s","s","i","s","t","a","n","t">>, <<"A","I">>, <<"a","i">>},
        c \in {<<>>, <<" ","a">>}}
    \cup {<<"x">>}

LineTexts ==
    LabelledLines \cup {a \o <<"\n">> \o b : a \in LabelledLines, b \in {<<"A","I",":"," ","b">>, <<"u","s","e","r",":">>, <<"y">>}}

JsonItems ==
    {\* {"from":"human","value":"a"}
     <<"{","\"","f","r","o","m","\"",":","\"","h","u","m","a","n","\"",
     ",","\"","v","a","l","u","e","\"",":","\"","a","\"","}">>,
     \* {"from":"gpt","value":"<b>b</b>"}
     <<"{","\"","f","r","o","m","\"",":","\"","g","p","t","\"",",",
     "\"","v","a","l","u","e","\"",":","\"","<","b",">","b","<","/",
     "b",">","\"","}">>,
     \* {"from":"user","value":"c"}
     <<"{","\"","f","r","o","m","\"",":","\"","u","s","e","r","\"",",",
     "\"","v","a","l","u","e","\"",":","\"","c","\"","}">>,
     \* {"from":"assistant","value":"d"}
     <<"{","\"","f","r","o","m","\"",":","\"","a","s","s","i","s","t",
     "a","n","t","\"",",","\"","v","a","l","u","e","\"",":","\"","d",
     "\"","}">>,
     \* {"from":"system","value":"e"}
     <<"{","\"","f","r","o","m","\"",":","\"","s","y","s","t","e","m",
     "\"",",","\"","v","a","l","u","e","\"",":","\"","e","\"","}">>,
     \* {"from":"gpt","value":5}
     <<"{","\"","f","r","o","m","\"",":","\"","g","p","t","\"",",",
     "\"","v","a","l","u","e","\"",":","5","}">>,
     \* null
     <<"n","u","l","l">>}

JsonTexts ==
    {<<"[">> \o a \o <<"]">> : a \in JsonItems}
    \cup {<<"[">> \o a \o <<",">> \o b \o <<"]">> : a \in JsonItems, b \in JsonItems}
    \cup {<<"[","]">>, <<"{","}">>, <<"5">>, <<"[","{">>}

MarkupTexts ==
    {\* <div data-message-author-role="user">hi</div>
     <<"<","d","i","v"," ","d","a","t","a","-","m","e","s","s","a","g",
     "e","-","a","u","t","h","o","r","-","r","o","l","e","=","\"",
     "u","s","e","r","\"",">","h","i","<","/","d","i","v",">">>,
     \* <p class="message-content">a &amp; b</p>
     <<"<","p"," ","c","l","a","s","s","=","\"","m","e","s","s","a",
     "g","e","-","c","o","n","t","e","n","t","\"",">","a"," ","&",
     "a","m","p",";"," ","b","<","/","p",">">>,
     \* <div class="message">hi</div>
     <<"<","d","i","v"," ","c","l","a","s","s","=","\"","m","e","s",
     "s","a","g","e","\"",">","h","i","<","/","d","i","v",">">>,
     \* texts that more than one tier or more than one pattern could take:
     \* [{"from":"user","value":"message-content"}]
     <<"[","{","\"","f","r","o","m","\"",":","\"","u","s","e","r","\"",",",
       "\"","v","a","l","u","e","\"",":","\"","m","e","s","s","a","g","e","-",
       "c","o","n","t","e","n","t","\"","}","]">>,
     \* <div class="message"></div>\nAI: a
     <<"<","d","i","v"," ","c","l","a","s","s","=","\"","m","e","s","s","a",
       "g","e","\"",">","<","/","d","i","v",">","\n","A","I",":"," ","a">>,
     \* <div data-message-author-role="user">hi</div>\nAI: a
     <<"<","d","i","v"," ","d","a","t","a","-","m","e","s","s","a","g","e",
       "-","a","u","t","h","o","r","-","r","o","l","e","=","\"","u","s","e",
       "r","\"",">","h","i","<","/","d","i","v",">","\n","A","I",":"," ","a">>,
     \* <div class="message">hi</div>\nAI: a
     <<"<","d","i","v"," ","c","l","a","s","s","=","\"","m","e","s","s","a",
       "g","e","\"",">","h","i","<","/","d","i","v",">","\n","A","I",":"," ",
       "a">>}

\* a call: the argument and what HTMLRewriter does if the structured tier is attempted
ParseCalls ==
    {[html |-> Str(t), run |-> HrThrows] : t \in LineTexts \cup JsonTexts \cup {<<>>}}
    \cup {[html |-> Str(t), run |-> run] : t \in MarkupTexts, run \in HrRuns}
    \cup {[html |-> x, run |-> HrThrows] : x \in {JsUndefined, JsNull, JsNumber(<<"5">>), JsBool(TRUE)}}

(***************************************************************************)
(* The arguments of the calls of sanitizeHtmlContent that are examined on  *)
(* their own: an opening piece, a middle piece and a closing piece.        *)
(***************************************************************************)
SanitizeTexts ==
    {a \o b \o c :
        a \in
        {\* (empty)
         <<>>,
         \* <scr
         <<"<","s","c","r">>,
         \* java
         <<"j","a","v","a">>,
         \* <table>
         <<"<","t","a","b","l","e",">">>,
         \* <b onclick="x">
         <<"<","b"," ","o","n","c","l","i","c","k","=","\"","x","\"",">">>,
         \* <td onclick=x>
         <<"<","t","d"," ","o","n","c","l","i","c","k","=","x",">">>},
        b \in
        {\* (empty)
         <<>>,
         \* <script></script>
         <<"<","s","c","r","i","p","t",">","<","/","s","c","r","i","p","t",">">>,
         \* javascript:
         <<"j","a","v","a","s","c","r","i","p","t",":">>,
         \* <script>a</script>
         <<"<","s","c","r","i","p","t",">","a","<","/","s","c","r","i","p",
           "t",">">>,
         \* <style>a</style>
         <<"<","s","t","y","l","e",">","a","<","/","s","t","y","l","e",">">>,
         \* <iframe src=x></iframe>
         <<"<","i","f","r","a","m","e"," ","s","r","c","=","x",">","<","/",
           "i","f","r","a","m","e",">">>,
         \* <noscript>a</noscript>
         <<"<","n","o","s","c","r","i","p","t",">","a","<","/","n","o","s",
           "c","r","i","p","t",">">>,
         \* <pre><code>a</code></pre>
         <<"<","p","r","e",">","<","c","o","d","e",">","a","<","/","c","o",
           "d","e",">","<","/","p","r","e",">">>},
        c \in
        {\* (empty)
         <<>>,
         \* ipt>a</script>
         <<"i","p","t",">","a","<","/","s","c","r","i","p","t",">">>,
         \* script:
         <<"s","c","r","i","p","t",":">>,
         \* </table>
         <<"<","/","t","a","b","l","e",">">>}}

(***************************************************************************)
(* The arguments of the calls of cleanHtmlContent that are examined on     *)
(* their own: an opening piece, a middle piece and a closing piece.        *)
(***************************************************************************)
CleanTexts ==
    {a \o b \o c :
        a \in
        {\* (empty)
         <<>>,
         \* &amp;
         <<"&","a","m","p",";">>,
         \* &lt;
         <<"&","l","t",";">>,
         \* <b>
         <<"<","b",">">>,
         \* <p>a</p>
         <<"<","p",">","a","<","/","p",">">>,
         \* &
         <<"&">>},
        b \in
        {\* (empty)
         <<>>,
         \* lt;
         <<"l","t",";">>,
         \* b
         <<"b">>,
         \* quot;
         <<"q","u","o","t",";">>,
         \* a b
         <<"a"," ","b">>,
         \* <li>x</li>
         <<"<","l","i",">","x","<","/","l","i",">">>},
        c \in
        {\* (empty)
         <<>>,
         \* &gt;
         <<"&","g","t",";">>,
         \* </b>
         <<"<","/","b",">">>,
         \* &nbsp;
         <<"&","n","b","s","p",";">>}}

\* seconds between two observations of the clock
TickSeconds == 1800

\* the number of posts the clients send in one run
MaxPosts == 3

\* the posts the clients send in one run of concurrent requests
MaxConcurrentPosts == 2

MaxRatePosts == 13

(***************************************************************************)
(* State.                                                                  *)
(*   kv       the store                                                    *)
(*   req      per request slot: where handlePost stands and its locals     *)
(*   header   the CF-Connecting-IP header of the client of this run        *)
(*   menu     the submissions the client of this run sends                 *)
(*   serial   whether the client awaits a response before its next post    *)
(*   budget   the number of posts the client has yet to send               *)
(*   window   history: the admissions since the counter key was created,   *)
(*            and whether the key was created by a request that read no    *)
(*            counter (clean) or by one that had read the expired one      *)
(*   lastResponse   history: the response of the request that ended last,  *)
(*            until the next request is admitted                            *)
(*   arg, ret a call of parseHtmlContent on its own and what it returned   *)
(***************************************************************************)
VARIABLES kv, req, header, menu, serial, budget, window, lastResponse, arg, ret

vars == <<kv, req, header, menu, serial, budget, window, lastResponse, arg, ret>>

Reqs == {"r1", "r2"}

NoResult == [format |-> "none"]

Idle ==
    [pc |-> "idle", sub |-> 0, clientIP |-> <<>>, newCount |-> 0, htmlContent |-> <<>>,
     attempts |-> 0, id |-> <<>>, raced |-> FALSE, parsedContent |-> NoResult]

NoCall == [html |-> JsUndefined, run |-> HrThrows]

NoResponse == [status |-> 0, text |-> "", sub |-> 0, checks |-> 0]

Response(status, text, r) ==
    [status |-> status, text |-> text, sub |-> req[r].sub, checks |-> 0]

\* request.headers.get('CF-Connecting-IP') || 'unknown'
ClientIP(h) == IF Truthy(h) THEN h.v ELSE RoleUnknown

EmptyStore == [x \in {} |-> 0]

\* the store after ten posts of the client that were admitted and then turned
\* down as empty: the counter stands at the limit and no record is stored
StoreAtLimit(h) ==
    KvPut(EmptyStore, RateLimitKey(ClientIP(h)), Str(String(limit)), expirationTtl)

InitWith(m, b, one) ==
    /\ header \in Headers
    /\ \/ kv = EmptyStore /\ window = [admitted |-> 0, clean |-> TRUE]
       \/ kv = StoreAtLimit(header) /\ window = [admitted |-> limit, clean |-> TRUE]
    /\ req = [r \in Reqs |-> Idle]
    /\ menu \in m
    /\ serial = one
    /\ budget = b
    /\ lastResponse = NoResponse
    /\ arg = NoCall
    /\ ret = NoResult

\* two requests in flight, each a conversation in text
Init == InitWith({{5}}, MaxConcurrentPosts, FALSE)

\* what a client sends in one run, one request after another: submissions that
\* validation turns down, bodies that cannot be read, conversations in text,
\* conversations in JSON bodies
InitSeq == InitWith({{1, 2, 3}, {8, 9, 10}, {4, 5}, {6}, {7}}, MaxPosts, TRUE)

InitRate ==
    /\ header \in Headers
    /\ kv = EmptyStore
    /\ window = [admitted |-> 0, clean |-> TRUE]
    /\ req = [r \in Reqs |-> Idle]
    /\ menu = {1, 3}
    /\ serial = TRUE
    /\ budget = MaxRatePosts
    /\ lastResponse = NoResponse
    /\ arg = NoCall
    /\ ret = NoResult

Fixed == UNCHANGED <<header, menu, serial, arg, ret>>

\* the requests of a client that awaits each response are handled one at a time:
\* they all take the same slot
Alone(r) == r = "r1"

(***************************************************************************)
(* handlePost, one action per step between two awaits.                     *)
(***************************************************************************)
\* lines 76-77 and 589-595: the request arrives, checkRateLimit reads the counter
\* and finds the limit reached; the error ends the request (handleRequest, line 64)
CheckRateLimitReject(r) ==
    /\ req[r].pc = "idle"
    /\ serial => Alone(r)
    /\ budget > 0
    /\ RateLimitExceeded(KvGet(kv, RateLimitKey(ClientIP(header))))
    /\ lastResponse' = [NoResponse EXCEPT !.status = 500, !.text = "Rate limit exceeded"]
    /\ budget' = budget - 1
    /\ UNCHANGED <<kv, req, window>>
    /\ Fixed

\* lines 76-77 and 589-597: checkRateLimit reads the counter and computes newCount
CheckRateLimitRead(r) ==
    /\ req[r].pc = "idle"
    /\ serial => Alone(r)
    /\ budget > 0
    /\ \E s \in menu :
          LET current == KvGet(kv, RateLimitKey(ClientIP(header)))
          IN  /\ ~RateLimitExceeded(current)
              /\ req' = [req EXCEPT ![r] = [Idle EXCEPT !.pc = "rl_put",
                                                        !.sub = s,
                                                        !.clientIP = ClientIP(header),
                                                        !.newCount = NewCount(current)]]
    /\ budget' = budget - 1
    /\ lastResponse' = NoResponse
    /\ UNCHANGED <<kv, window>>
    /\ Fixed

\* C20, a bug: the request goes on to its body and the counter is not written
C20_CountedAfterValidation(r) ==
    /\ req[r].pc = "rl_put"
    /\ req' = [req EXCEPT ![r].pc = "body"]
    /\ UNCHANGED <<kv, window, lastResponse, budget>>
    /\ Fixed

\* line 598: the put of the counter
CheckRateLimitPut(r) ==
    /\ req[r].pc = "rl_put"
    /\ kv' = KvPut(kv, RateLimitKey(req[r].clientIP), Str(String(req[r].newCount)),
                   expirationTtl)
    /\ req' = [req EXCEPT ![r].pc = "body"]
    /\ window' = IF RateLimitKey(req[r].clientIP) \in DOMAIN kv
                 THEN [window EXCEPT !.admitted = window.admitted + 1]
                 ELSE [admitted |-> 1, clean |-> req[r].newCount = 1]
    /\ UNCHANGED <<lastResponse, budget>>
    /\ Fixed

\* lines 85-86 on the outcome of request.json(): body.html || body.content
JsonContent(body) ==
    IF ~body.ok THEN [ok |-> FALSE, v |-> JsUndefined]
    \* body.html of null
    ELSE IF body.v.k = "null" THEN [ok |-> FALSE, v |-> JsUndefined]
    ELSE [ok |-> TRUE,
          v |-> IF Truthy(GetProp(body.v, <<"h","t","m","l">>))
                THEN GetProp(body.v, <<"h","t","m","l">>)
                ELSE GetProp(body.v, <<"c","o","n","t","e","n","t">>)]

\* lines 83-88: the submitted content, or the error of reading it
BodyContent(post) ==
    IF includes(post.contentType, ApplicationJson) THEN JsonContent(JSONparse(Str(post.body)))
    ELSE [ok |-> TRUE, v |-> Str(post.body)]

\* lines 93 and 101
IsEmptyContent(htmlContent) == htmlContent = <<>> \/ Length(htmlContent) = 0

\* C9, a bug: content of exactly the maximum is turned down
C9_CeilingInclusive(htmlContent) == Length(htmlContent) >= MaxContentLength

IsTooLarge(htmlContent) == Length(htmlContent) > MaxContentLength

\* lines 80-106: the body is read, normalised and validated
ReadBody(r) ==
    /\ req[r].pc = "body"
    /\ \E content \in {BodyContent(Submissions[req[r].sub])} :
       \E htmlContent \in {preprocessContent(content.v)} :
          IF ~content.ok
          THEN /\ lastResponse' = Response(500, "Error", r)
               /\ req' = [req EXCEPT ![r] = Idle]
          ELSE IF IsEmptyContent(htmlContent)
          THEN /\ lastResponse' = Response(400, "No content provided", r)
               /\ req' = [req EXCEPT ![r] = Idle]
          ELSE IF IsTooLarge(htmlContent)
          THEN /\ lastResponse' = Response(413, "Content too large (max 1MB)", r)
               /\ req' = [req EXCEPT ![r] = Idle]
          ELSE /\ req' = [req EXCEPT ![r].pc = "alloc", ![r].htmlContent = htmlContent]
               /\ UNCHANGED lastResponse
    /\ UNCHANGED <<kv, window, budget>>
    /\ Fixed

\* C3, a bug: the loop runs while attempts <= maxAttempts
C3_OneMoreAttempt(attempts) == attempts <= maxAttempts

\* line 201
KeepTrying(attempts) == attempts < maxAttempts

\* lines 201-213: one turn of the loop of generateUniqueId; the candidate is free
GenerateUniqueIdReturn(r) ==
    /\ req[r].pc = "alloc"
    /\ \E draws \in RandomDraws :
          /\ IdIsFree(kv, Candidate(draws))
          /\ req' = [req EXCEPT ![r].pc = "parse",
                                ![r].id = Candidate(draws),
                                ![r].attempts = 0]
    /\ UNCHANGED <<kv, window, lastResponse, budget>>
    /\ Fixed

\* lines 201-215: the candidate exists; the loop goes on or the allocation fails
GenerateUniqueIdRetry(r) ==
    /\ req[r].pc = "alloc"
    /\ \E draws \in RandomDraws :
          /\ ~IdIsFree(kv, Candidate(draws))
          /\ IF KeepTrying(req[r].attempts + 1)
             THEN /\ req' = [req EXCEPT ![r].attempts = req[r].attempts + 1]
                  /\ UNCHANGED lastResponse
             ELSE /\ lastResponse' =
                        [Response(500, "Failed to generate unique ID", r)
                            EXCEPT !.checks = req[r].attempts + 1]
                  /\ req' = [req EXCEPT ![r] = Idle]
    /\ UNCHANGED <<kv, window, budget>>
    /\ Fixed

\* line 112
ParseContent(r) ==
    /\ req[r].pc = "parse"
    /\ \E run \in HrRuns :
          req' = [req EXCEPT ![r].pc = "put",
                             ![r].parsedContent =
                                 parseHtmlContent(Str(req[r].htmlContent), run)]
    /\ UNCHANGED <<kv, window, lastResponse, budget>>
    /\ Fixed

\* lines 115-127; the store holds JSON.stringify of this object
ConversationData(q) ==
    [k |-> "stringified",
     id |-> q.id,
     content |-> [parsed |-> q.parsedContent,
                  raw |-> q.htmlContent,
                  format |-> q.parsedContent.format,
                  metadata |-> [size |-> Length(q.htmlContent), ip |-> q.clientIP]]]

\* C10, a bug: the share URL is returned and nothing is stored
C10_PutSkipped(r) ==
    /\ req[r].pc = "put"
    /\ lastResponse' = Response(200, "success", r)
    /\ req' = [req EXCEPT ![r] = Idle]
    /\ UNCHANGED <<kv, window, budget>>
    /\ Fixed

\* lines 130-144: the record is put and the share URL returned
PutRecord(r) ==
    /\ req[r].pc = "put"
    /\ kv' = KvPut(kv, req[r].id, ConversationData(req[r]), 0)
    /\ lastResponse' = Response(200, "success", r)
    /\ req' = [q \in Reqs |->
                 IF q = r THEN Idle
                 ELSE IF req[q].pc \in {"parse", "put"} /\ req[q].id = req[r].id
                 THEN [req[q] EXCEPT !.raced = TRUE]
                 ELSE req[q]]
    /\ UNCHANGED <<window, budget>>
    /\ Fixed

\* line 130: the store is unavailable and the put fails
PutFails(r) ==
    /\ req[r].pc = "put"
    /\ lastResponse' = Response(500, "Error", r)
    /\ req' = [req EXCEPT ![r] = Idle]
    /\ UNCHANGED <<kv, window, budget>>
    /\ Fixed

\* time passes; the store drops the keys whose expirationTtl is over
Tick ==
    /\ \E x \in DOMAIN kv : kv[x].ttl > 0
    /\ kv' = KvAfter(kv, TickSeconds)
    /\ window' = IF DOMAIN kv' = DOMAIN kv THEN window
                 ELSE [admitted |-> 0, clean |-> TRUE]
    /\ UNCHANGED <<req, lastResponse, budget>>
    /\ Fixed

Step(r) ==
    \/ CheckRateLimitReject(r)
    \/ CheckRateLimitRead(r)
    \/ CheckRateLimitPut(r)
    \/ ReadBody(r)
    \/ GenerateUniqueIdReturn(r)
    \/ GenerateUniqueIdRetry(r)
    \/ ParseContent(r)
    \/ PutRecord(r)
    \/ PutFails(r)

Next == (\E r \in Reqs : Step(r)) \/ Tick

Spec == Init /\ [][Next]_vars

\* the posts of a client that awaits each response before it posts again
SpecSeq == InitSeq /\ [][Next]_vars

\* the posts of such a client whose submissions are all turned down by validation:
\* the steps after validation are never reached
RateStep(r) ==
    \/ CheckRateLimitReject(r)
    \/ CheckRateLimitRead(r)
    \/ CheckRateLimitPut(r)
    \/ ReadBody(r)

NextRate == (\E r \in Reqs : RateStep(r)) \/ Tick

SpecRateSeq == InitRate /\ [][NextRate]_vars

\* the posts of a client that awaits each response, whose submissions are either
\* all turned down by validation or all conversations in text
SpecFail == InitWith({{1, 3}, {5}}, MaxRatePosts, TRUE) /\ [][Next]_vars

\* two requests of one client in flight at a time, within the life of one counter
\* key: no key expires
SpecRace ==
    InitWith({{1, 3}}, MaxRatePosts, FALSE) /\ [][\E r \in Reqs : RateStep(r)]_vars

\* two requests of one client in flight at a time, each turned down as empty,
\* while time passes and counter keys expire
SpecRate == InitWith({{1}}, MaxRatePosts, FALSE) /\ [][NextRate]_vars

(***************************************************************************)
(* parseHtmlContent on its own: a call and its result.                     *)
(***************************************************************************)
\* a function called on its own: the store and the requests play no part
InitCall(calls) ==
    /\ header = JsNull
    /\ kv = EmptyStore
    /\ window = [admitted |-> 0, clean |-> TRUE]
    /\ req = [r \in Reqs |-> Idle]
    /\ menu = {}
    /\ serial = TRUE
    /\ budget = 0
    /\ lastResponse = NoResponse
    /\ arg \in calls
    /\ ret = NoResult

\* lines 383-496
CallParseHtmlContent ==
    /\ ret = NoResult
    /\ ret' = parseHtmlContent(arg.html, arg.run)
    /\ UNCHANGED <<kv, req, header, menu, serial, budget, window, lastResponse, arg>>

SpecParse == InitCall(ParseCalls) /\ [][CallParseHtmlContent]_vars

(***************************************************************************)
(* sanitizeHtmlContent on its own: a call and its result.                  *)
(***************************************************************************)
\* lines 337-349
CallSanitizeHtmlContent ==
    /\ ret = NoResult
    /\ ret' = Str(sanitizeHtmlContent(arg.html))
    /\ UNCHANGED <<kv, req, header, menu, serial, budget, window, lastResponse, arg>>

SpecSanitize ==
    /\ InitCall({[html |-> Str(t), run |-> HrThrows] : t \in SanitizeTexts})
    /\ [][CallSanitizeHtmlContent]_vars

(***************************************************************************)
(* cleanHtmlContent on its own: a call and its result.                     *)
(***************************************************************************)
\* lines 525-583
CallCleanHtmlContent ==
    /\ ret = NoResult
    /\ ret' = Str(cleanHtmlContent(arg.html))
    /\ UNCHANGED <<kv, req, header, menu, serial, budget, window, lastResponse, arg>>

SpecClean ==
    /\ InitCall({[html |-> Str(t), run |-> HrThrows] : t \in CleanTexts})
    /\ [][CallCleanHtmlContent]_vars

(***************************************************************************)
(* The claims.                                                             *)
(***************************************************************************)
\* lines 83-91 for a submission of the menu: whether its body can be read, and
\* the content after preprocessContent
Readable(s) == BodyContent(Submissions[s]).ok

Normalized(s) == preprocessContent(BodyContent(Submissions[s]).v)

\* the keys of the store that hold conversation records
Records(store) == {x \in DOMAIN store : store[x].value.k = "stringified"}

StoredCounter == KvGet(kv, RateLimitKey(ClientIP(header)))

\* the client is about to post and no request of its is under way
Waiting == req["r1"].pc = "idle" /\ budget > 0

Admits == ENABLED CheckRateLimitRead("r1") /\ ~ENABLED CheckRateLimitReject("r1")

Rejects == ENABLED CheckRateLimitReject("r1") /\ ~ENABLED CheckRateLimitRead("r1")

\* C1: requests of one client handled one after another; a window is the life of
\* the counter key.  Within a window the next call is admitted as long as fewer
\* than 10 were, it is rejected once 10 were, and it is admitted when the
\* counter key has expired.
C1_FirstTenAdmitted ==
    /\ Waiting /\ window.admitted < limit => Admits
    /\ Waiting /\ window.admitted = limit => Rejects
    /\ Waiting /\ StoredCounter = JsNull => Admits

\* C1, what the limiter does keep: no window (the life of the counter key)
\* admits more than 10 calls, and a window whose key was created by a call that
\* found no counter admits exactly the first 10.  A call that read the counter
\* before the key expired and wrote it after starts a window with the count it
\* read, and that window admits fewer than 10 calls.
C1_TenPerWindow ==
    /\ window.admitted <= limit
    /\ Waiting /\ StoredCounter = JsNull => Admits
    /\ Waiting /\ window.clean /\ window.admitted < limit => Admits
    /\ Waiting /\ window.clean /\ window.admitted = limit => Rejects

\* C1: the 11th post was rejected after ten were admitted, the counter key has
\* expired since, and the next call is admitted
C1_RejectedThenExpired ==
    /\ lastResponse.text = "Rate limit exceeded"
    /\ budget = MaxRatePosts - 11
    /\ StoredCounter = JsNull
    /\ window.admitted = 0
    /\ Admits

\* C2: under every interleaving of the requests in flight, no put of a
\* conversation record targets an id that holds a record
C2_NoPutOnStoredId ==
    \A r \in Reqs : req[r].pc = "put" => req[r].id \notin Records(kv)

\* C2, how a record comes to be overwritten: the id of a request that has passed
\* the existence check holds a record only if a concurrent request, which drew
\* the same id, wrote that record after the check
C2_OverwriteOnlyAfterRace ==
    \A r \in Reqs :
        req[r].pc \in {"parse", "put"} /\ req[r].id \in Records(kv) => req[r].raced

\* C2: a request is about to put on an id on which another request, after this
\* one's existence check, has written its record
C2_PutAfterRace ==
    \E r \in Reqs : req[r].pc = "put" /\ req[r].raced /\ req[r].id \in Records(kv)

\* C3: requests handled one after another.  The id generateUniqueId returned holds
\* no stored value; the loop never starts an 11th existence check; the allocation
\* fails only after exactly 10 checks, each of which found a stored value.
C3_TenChecks ==
    /\ \A r \in Reqs : req[r].pc \in {"parse", "put"} => req[r].id \notin DOMAIN kv
    /\ \A r \in Reqs : req[r].pc = "alloc" => req[r].attempts < maxAttempts
    /\ lastResponse.text = "Failed to generate unique ID" =>
          /\ lastResponse.checks = maxAttempts
          /\ \E draws \in RandomDraws : Candidate(draws) \in DOMAIN kv

\* C3: an allocation failed, after ten checks
C3_AllocationFailed ==
    /\ lastResponse.text = "Failed to generate unique ID"
    /\ lastResponse.checks = 10

Ambiguous == {"0", "O", "1", "l", "I"}

\* C4 as stated: an id has 8 characters of an alphabet of 56 symbols without 0, O, 1, l, I
C4_Alphabet56 ==
    \A r \in Reqs :
        req[r].pc \in {"parse", "put"} =>
            /\ Len(req[r].id) = 8
            /\ \A i \in 1..Len(req[r].id) : req[r].id[i] \in Drawable
            /\ Cardinality(Drawable) = 56
            /\ Drawable \cap Ambiguous = {}

\* C4, amended: an id has exactly 8 characters, each of an alphabet of exactly 55
\* distinct symbols, which holds none of 0, O, 1, l, I
C4_Alphabet55 ==
    \A r \in Reqs :
        req[r].pc \in {"parse", "put"} =>
            /\ Len(req[r].id) = 8
            /\ \A i \in 1..Len(req[r].id) : req[r].id[i] \in Drawable
            /\ Drawable = {chars[i] : i \in 1..Len(chars)}
            /\ Cardinality(Drawable) = 55
            /\ Drawable \cap Ambiguous = {}

\* C4: generateUniqueId has returned an id made of the last symbol of the alphabet
C4_IdReturned ==
    \E r \in Reqs : req[r].pc = "parse" /\ req[r].id = [i \in 1..8 |-> "9"]

Formats == {"json", "htmlrewriter", "parsed", "fallback"}

\* the structured extractor was attempted (the input is a string, no conversation
\* in JSON, and holds a marker) and failed
ExtractorFailed ==
    /\ typeof(arg.html) = "string"
    /\ ~isValidConversationJSON(arg.html)
    /\ HasMarker(arg.html)
    /\ arg.run.throws

\* C5 as stated: a failure of the structured extractor ends in a fallback result of
\* one unknown message with the error set
C5_EveryFailureFallsBack ==
    ret # NoResult /\ ExtractorFailed =>
        /\ ret.format = "fallback"
        /\ Len(ret.messages) = 1
        /\ ret.messages[1].role = RoleUnknown
        /\ "error" \in DOMAIN ret

\* C5, amended: parseHtmlContent returns a result for every input.  A failure of
\* the structured extractor is caught and the regex tier gives the result, which
\* has format "parsed" and no error; any other failure (the input is no string)
\* gives format "fallback" with exactly one message of role unknown, whose content
\* is the cleaned input, and the error set.
C5_FailuresAreCaught ==
    ret # NoResult =>
        /\ ret.format \in Formats
        /\ Len(ret.messages) >= 1
        /\ ret.format = "fallback" <=> typeof(arg.html) # "string"
        /\ ret.format = "fallback" =>
              /\ ret.messages = <<Message(RoleUnknown, cleanHtmlContent(arg.html))>>
              /\ "error" \in DOMAIN ret
        /\ ExtractorFailed => ret.format = "parsed" /\ "error" \notin DOMAIN ret

\* C5: the structured extractor failed and the regex tier gave the result
C5_ExtractorFailedThenRegex ==
    ret # NoResult /\ ExtractorFailed /\ ret.format = "parsed"

C7_RoleIsDerived ==
    ret # NoResult =>
        \A n \in 1..Len(ret.messages) :
            ret.messages[n].role \in {RoleUser, RoleAssistant, RoleUnknown}

\* the elements of the array a JSON text denotes, <<>> when it denotes none
ArrayOf(x) ==
    IF typeof(x) = "string" /\ JSONparse(x).ok /\ JSONparse(x).v.k = "array"
    THEN JSONparse(x).v.v ELSE <<>>

Synonyms == {FromHuman, FromGpt, RoleUser, RoleAssistant}

\* an object with a string from of the synonym set and a string value
Turn(item) ==
    /\ item.k = "object"
    /\ GetProp(item, KeyFrom).k = "string"
    /\ GetProp(item, KeyFrom).v \in Synonyms
    /\ GetProp(item, KeyValue).k = "string"

\* C8: for an input that is a non-empty JSON array of objects with a string from
\* in {human, gpt, user, assistant} and a string value, the result has format
\* "json", messageCount the length of the array, and its n-th message is the
\* n-th element's: role user for human and user, assistant for gpt and assistant,
\* content the sanitized value
C8_JsonTier ==
    LET items == ArrayOf(arg.html)
    IN  ret # NoResult /\ Len(items) > 0 /\ (\A n \in 1..Len(items) : Turn(items[n])) =>
            /\ ret.format = "json"
            /\ ret.messageCount = Len(items)
            /\ Len(ret.messages) = Len(items)
            /\ \A n \in 1..Len(items) :
                  /\ ret.messages[n].role =
                        IF GetProp(items[n], KeyFrom).v \in {FromHuman, RoleUser}
                        THEN RoleUser ELSE RoleAssistant
                  /\ ret.messages[n].content =
                        sanitizeHtmlContent(GetProp(items[n], KeyValue))

\* C8: the result of an array of a user turn and a gpt turn
C8_TwoTurns ==
    /\ ret # NoResult
    /\ ret.format = "json"
    /\ Len(ArrayOf(arg.html)) = 2
    /\ GetProp(ArrayOf(arg.html)[1], KeyFrom) = Str(RoleUser)
    /\ GetProp(ArrayOf(arg.html)[2], KeyFrom) = Str(FromGpt)
    /\ ret.messages[1].role = RoleUser
    /\ ret.messages[2].role = RoleAssistant

\* the request that ended last had read its body
Ended == lastResponse.sub # 0 /\ Readable(lastResponse.sub)

\* C9: requests handled one after another.  A request is turned down with 400
\* "No content provided" exactly when its normalized content is empty and with
\* 413 "Content too large" exactly when the content exceeds 1 MiB; a request
\* that allocates an id, parses or puts has content that is neither, and no
\* record holds content that is empty or exceeds 1 MiB.
C9_TurnedDownBeforeParse ==
    /\ \A r \in Reqs :
          req[r].pc \in {"alloc", "parse", "put"} =>
              /\ Length(req[r].htmlContent) > 0
              /\ Length(req[r].htmlContent) <= 1024 * 1024
    /\ \A x \in Records(kv) :
          /\ Length(kv[x].value.content.raw) > 0
          /\ Length(kv[x].value.content.raw) <= 1024 * 1024
    /\ Ended =>
          /\ Length(Normalized(lastResponse.sub)) = 0
                <=> lastResponse.status = 400 /\ lastResponse.text = "No content provided"
          /\ Length(Normalized(lastResponse.sub)) > 1024 * 1024
                <=> /\ lastResponse.status = 413
                    /\ lastResponse.text = "Content too large (max 1MB)"

\* C9: content of more than 1 MiB was turned down and the store holds no record
C9_OversizeTurnedDown ==
    /\ lastResponse.status = 413
    /\ Length(Normalized(lastResponse.sub)) = 1024 * 1024 + 1
    /\ Records(kv) = {}

\* C10: requests handled one after another.  Parsing gives a result whatever
\* HTMLRewriter does, and the put follows it; a request whose content is neither
\* empty nor above 1 MiB ends with its record in the store, unless the
\* allocation of the id failed or the put failed.
C10_NeverTurnedDownByParse ==
    /\ \A r \in Reqs :
          req[r].pc = "parse" =>
              \A run \in HrRuns :
                  parseHtmlContent(Str(req[r].htmlContent), run).format \in Formats
    /\ \A r \in Reqs : req[r].pc = "put" => req[r].parsedContent.format \in Formats
    /\ /\ Ended
       /\ Length(Normalized(lastResponse.sub)) > 0
       /\ Length(Normalized(lastResponse.sub)) <= 1024 * 1024
       => \/ /\ lastResponse.status = 200
             /\ \E x \in Records(kv) :
                   kv[x].value.content.raw = Normalized(lastResponse.sub)
          \/ lastResponse.text = "Failed to generate unique ID"
          \/ lastResponse.status = 500 /\ lastResponse.text = "Error"

\* C10: a submission in which no tier found a role ended with its record stored
C10_UnparseableStored ==
    /\ lastResponse.status = 200
    /\ \E x \in Records(kv) :
          /\ kv[x].value.content.raw = Normalized(lastResponse.sub)
          /\ kv[x].value.content.parsed.messages[1].role = RoleUnknown


\* the positions of s at which an element of one of the four removed kinds, an
\* inline event-handler attribute or a javascript: URI starts
Dangerous(s) ==
    UNION {MatchStarts(s, BlockRe(tag), 1) :
              tag \in {<<"s","c","r","i","p","t">>, <<"s","t","y","l","e">>,
                       <<"i","f","r","a","m","e">>, <<"n","o","s","c","r","i","p","t">>}}
    \cup MatchStarts(s, <<Plus(WhiteSpace)>> \o LitI(<<"o", "n">>)
                        \o <<Plus(SeqRange(LowerCase) \cup SeqRange(UpperCase)
                                  \cup Digit \cup {"_"})>>
                        \o Lit(<<"=">>), 1)
    \cup MatchStarts(s, LitI(<<"j","a","v","a","s","c","r","i","p","t",":">>), 1)

\* C11: the output of sanitizeHtmlContent holds no script, style, iframe or
\* noscript block, no on*= attribute and no javascript: URI, and an input that
\* holds none of them comes out unchanged
C11_NothingDangerousLeft ==
    ret # NoResult =>
        /\ Dangerous(ret.v) = {}
        /\ Dangerous(arg.html.v) = {} => ret.v = arg.html.v


\* C12: cleaning the output of cleanHtmlContent again changes nothing
C12_CleanIsIdempotent ==
    ret # NoResult => cleanHtmlContent(ret) = ret.v

\* the entities of the fixed table (lines 554-564)
Entities ==
    {<<"&","n","b","s","p",";">>,
     <<"&","l","t",";">>,
     <<"&","g","t",";">>,
     <<"&","a","m","p",";">>,
     <<"&","q","u","o","t",";">>,
     <<"&","#","x","2","7",";">>,
     <<"&","#","x","2","F",";">>,
     <<"&","#","3","9",";">>,
     <<"&","h","e","l","l","i","p",";">>,
     <<"&","m","d","a","s","h",";">>,
     <<"&","n","d","a","s","h",";">>}

\* C13: the output of cleanHtmlContent holds no tag (a "<", then a ">" after it
\* with no other ">" between) and no entity of the fixed table
C13_NoTagNoEntity ==
    ret # NoResult =>
        /\ MatchStarts(ret.v, <<One({"<"}), NotStar({">"}), One({">"})>>, 1) = {}
        /\ \A e \in Entities : ~includes(ret.v, e)


\* the first pattern of the regex tier that has a match in s, 0 when none has
FirstPattern(s) ==
    IF \E n \in 1..Len(patterns) : MatchStarts(s, patterns[n], 1) # {}
    THEN Least({n \in 1..Len(patterns) : MatchStarts(s, patterns[n], 1) # {}})
    ELSE 0

\* the structured tier was attempted, HTMLRewriter ran and a user or assistant
\* text was extracted
Extracted ==
    /\ HasMarker(arg.html)
    /\ ~arg.run.throws
    /\ \E n \in 1..Len(arg.run.events) :
          /\ arg.run.events[n].e = "element"
          /\ arg.run.events[n].track \in {"userTexts", "assistantTexts"}
          /\ \E k \in (n + 1)..Len(arg.run.events) :
                arg.run.events[k].e = "text" /\ arg.run.events[k].lastInTextNode

\* no tier of the cascade yields a message for the string arg.html: it is no
\* conversation in JSON, no text was extracted, and no match of the first
\* matching pattern has a first group that is not empty
NoTierYields ==
    /\ typeof(arg.html) = "string"
    /\ ~isValidConversationJSON(arg.html)
    /\ ~Extracted
    /\ \/ FirstPattern(arg.html.v) = 0
       \/ LET matches == matchAll(arg.html.v, patterns[FirstPattern(arg.html.v)])
          IN  \A n \in 1..Len(matches) : ~Truthy(Group(arg.html.v, matches[n], 1))

\* C14 as stated: when no tier yields a message the result is one unknown message
\* of the cleaned text with format "fallback"
C14_SingleBlobIsFallback ==
    ret # NoResult /\ NoTierYields =>
        /\ ret.messages = <<Message(RoleUnknown, cleanHtmlContent(arg.html))>>
        /\ ret.format = "fallback"

\* C14, amended: when no tier yields a message the result is exactly one message
\* of role unknown holding the cleaned text, with format "parsed", messageCount
\* 1 and no error
C14_SingleBlobIsParsed ==
    ret # NoResult /\ NoTierYields =>
        /\ ret.messages = <<Message(RoleUnknown, cleanHtmlContent(arg.html))>>
        /\ ret.format = "parsed"
        /\ ret.messageCount = 1
        /\ "error" \notin DOMAIN ret

\* C14: the text x, in which no tier finds a message, came back as one unknown message
C14_PlainTextWrapped ==
    /\ ret # NoResult
    /\ NoTierYields
    /\ arg.html.v = <<"x">>
    /\ ret.messages = <<Message(RoleUnknown, <<"x">>)>>


\* the count a request wrote or is about to write
CountOf(value) == parseInt(value).n

\* C15: concurrent requests of one client within the life of one counter key.
\* A request writes the count it read plus one whatever was written since it
\* read: the stored count never exceeds the number of requests admitted since
\* the key was created, and a request between its read and its put holds a
\* count of at most that number plus one.  (The witness shows the count falling
\* short: two requests read the same count and write the same value.)
C15_NeverOvercounts ==
    /\ StoredCounter # JsNull => CountOf(StoredCounter) <= window.admitted
    /\ \A r \in Reqs : req[r].pc = "rl_put" => req[r].newCount <= window.admitted + 1

\* C15: both requests read 9 and wrote 10: 11 requests were admitted since the
\* key was created and the counter stands at 10
C15_ElevenAdmitted ==
    /\ window.clean
    /\ window.admitted = limit + 1
    /\ CountOf(StoredCounter) = limit
    /\ \A r \in Reqs : req[r].pc = "body" /\ req[r].newCount = limit


\* the decimal texts of the integers 1..10
Counts == {Str(String(n)) : n \in 1..limit}

\* C19: concurrent requests of one client while counter keys expire.  The stored
\* counter, when there is one, is the decimal text of an integer from 1 to 10;
\* no request is about to write a count outside 1..10; and the step that rejects
\* a request leaves the store as it was.
C19_CounterInRange ==
    /\ [](/\ StoredCounter # JsNull => StoredCounter \in Counts
          /\ \A r \in Reqs : req[r].pc = "rl_put" => req[r].newCount \in 1..limit)
    /\ [][budget' < budget /\ lastResponse'.text = "Rate limit exceeded"
            => kv' = kv]_vars

\* C19: two requests read 9 and both wrote 10, and the request after them was
\* rejected: the counter stands at 10
C19_RejectedAtTen ==
    /\ window.clean
    /\ window.admitted = limit + 1
    /\ lastResponse.text = "Rate limit exceeded"
    /\ StoredCounter = Str(String(limit))


\* the seconds the counter of the client has left, 0 when there is none
TimeLeft(store) ==
    IF RateLimitKey(ClientIP(header)) \in DOMAIN store
    THEN store[RateLimitKey(ClientIP(header))].ttl
    ELSE 0

\* C16: requests of one client handled one after another.  The counter key expires
\* 3600 seconds after the request that created it: no step gives a counter that
\* is in the store more time to live than it had.
C16_ExpiryNotPostponed ==
    [][TimeLeft(kv) > 0 => TimeLeft(kv') <= TimeLeft(kv)]_vars


\* C17: the tiers are tried in the order JSON, structured, regex, single message.
\* A string the JSON tier accepts gives format "json" whatever markers or role
\* lines it holds; the structured tier is attempted only on a text that holds a
\* marker (without one the result does not depend on what HTMLRewriter would
\* do) and decides when it extracted a text; the regex tier gives the result
\* only when the text is no conversation in JSON and the structured tier was
\* not attempted, failed, or extracted nothing.
C17_TierOrder ==
    ret # NoResult /\ typeof(arg.html) = "string" =>
        /\ isValidConversationJSON(arg.html) => ret.format = "json"
        /\ ret.format = "htmlrewriter" <=>
               ~isValidConversationJSON(arg.html) /\ Extracted
        /\ ~HasMarker(arg.html) => \A run \in HrRuns : ret = parseHtmlContent(arg.html, run)
        /\ ret.format = "parsed" <=>
               /\ ~isValidConversationJSON(arg.html)
               /\ ~HasMarker(arg.html) \/ arg.run.throws \/ ~Extracted

\* C17: a conversation in JSON whose text holds a marker, with an HTMLRewriter
\* run that would extract a text, is answered by the JSON tier
C17_JsonBeforeMarkers ==
    /\ ret # NoResult
    /\ ret.format = "json"
    /\ HasMarker(arg.html)
    /\ arg.run \in HrRuns \ {HrThrows, HrRun(<<>>)}


\* the contents a pattern's matches can give: the cleaned second group, or the
\* cleaned first group when the second is empty or missing
ContentsOf(s, n) ==
    LET matches == matchAll(s, patterns[n])
    IN  {cleanHtmlContent(IF Truthy(Group(s, matches[k], 2)) THEN Group(s, matches[k], 2)
                          ELSE Group(s, matches[k], 1)) :
            k \in {j \in 1..Len(matches) : Truthy(Group(s, matches[j], 1))} }

\* C18: the regex tier gave the result.  The patterns are tried in the order (a),
\* (b), (c) and the first that has a match decides: every message that is not
\* the single unknown one has the content of a match of that pattern, there are
\* as many messages as that pattern has matches with a first group, and when
\* none of its matches has one the result is the single unknown message, also
\* when a later pattern matches.
C18_FirstMatchWins ==
    ret # NoResult /\ ret.format = "parsed" =>
        LET s == arg.html.v
            p == FirstPattern(s)
            matches == matchAll(s, patterns[p])
            yielding == {j \in 1..Len(matches) : Truthy(Group(s, matches[j], 1))}
        IN  IF p = 0 \/ yielding = {}
            THEN ret.messages = <<Message(RoleUnknown, cleanHtmlContent(arg.html))>>
            ELSE /\ Len(ret.messages) = Cardinality(yielding)
                 /\ \A n \in 1..Len(ret.messages) :
                        /\ ret.messages[n].content \in ContentsOf(s, p)
                        /\ ret.messages[n].role # RoleUnknown

\* C18: pattern (b) matched a div that holds nothing, pattern (c) matches a line
\* of the text, and the result is the single unknown message
C18_LaterPatternIgnored ==
    /\ ret # NoResult
    /\ ret.format = "parsed"
    /\ FirstPattern(arg.html.v) = 2
    /\ MatchStarts(arg.html.v, patterns[3], 1) # {}
    /\ Len(ret.messages) = 1
    /\ ret.messages[1].role = RoleUnknown


\* C20: requests of one client handled one after another.  The counter is written
\* before the body is read: the step that takes a request to the reading of its
\* body leaves the counter at the count of this request; while the request reads
\* its body, allocates an id, parses or puts, the counter (unless it has expired)
\* holds that count; a request that ends without a record stored leaves the
\* store as it is, its admission counted; and once 10 requests were admitted
\* since the key was created the next is rejected, whatever became of the 10.
C20_CountedBeforeBody ==
    /\ [][\A r \in Reqs :
            req[r].pc # "body" /\ req'[r].pc = "body" =>
                KvGet(kv', RateLimitKey(ClientIP(header))) = Str(String(req'[r].newCount))]_vars
    /\ [](\A r \in Reqs :
            req[r].pc \in {"body", "alloc", "parse", "put"} =>
                /\ req[r].newCount \in 1..limit
                /\ StoredCounter \in {JsNull, Str(String(req[r].newCount))})
    /\ [][\A r \in Reqs :
            req[r].pc \in {"body", "alloc", "put"} /\ req'[r].pc = "idle"
                /\ lastResponse'.status # 200 => kv' = kv]_vars
    /\ [](Waiting /\ window.clean /\ window.admitted = limit => Rejects)

\* C20: ten posts of a conversation were admitted and each failed in the put of
\* its record; the 11th post was rejected by the rate limiter and the store
\* holds no record
C20_RejectedWithNothingStored ==
    /\ menu = {5}
    /\ budget = MaxRatePosts - 11
    /\ lastResponse.text = "Rate limit exceeded"
    /\ window.admitted = limit
    /\ Records(kv) = {}

====
